---- MODULE Spec2Model ----
(***************************************************************************)
(* A model of demos/node-classification/cora-example.py: the command-line  *)
(* script that loads the CORA edge list and node table, builds a graph,    *)
(* splits the node IDs, trains a GraphSAGE classifier and saves the model  *)
(* and the label encoder.                                                  *)
(*                                                                         *)
(* One run of the script is one behaviour.  pc is the statement the        *)
(* interpreter is at, one value per block of the script; the other         *)
(* variables are the script's globals and train()'s locals.  trace,        *)
(* failed_at and written are history variables: the blocks entered, the    *)
(* block an exception was raised in, and the files whose write completed.  *)
(*                                                                         *)
(* Library calls are modelled by what they compute on the values the       *)
(* script hands them: DictVectorizer (feature "<name>=<value>", sorted     *)
(* vocabulary, one-hot rows, inverse_transform), train_test_split          *)
(* (size validation, stratified allocation, index permutation),            *)
(* networkx from_pandas_edgelist and node attribute access, str.format.    *)
(* Their random choices (the split's permutations, the ties of the         *)
(* stratified allocation, the trained weights) and the failures of the     *)
(* framework and of the file system are nondeterministic.  A row's 1433    *)
(* word columns are one opaque value (FeatureOf), a float is its number of *)
(* thousandths.                                                            *)
(***************************************************************************)
EXTENDS Integers, Sequences, FiniteSets, TLC

VARIABLES
    argv,            \* the command line
    fs,              \* the files under the graph directory
    pc,              \* the block of the script about to run
    args,            \* parser.parse_known_args()
    edgelist,        \* global edgelist
    node_data,       \* global node_data
    target_name,     \* train(): parameter target_name
    hyper,           \* train(): layer_size, num_samples, batch_size, ...
    target_encoding, \* train(): the DictVectorizer
    node_targets,    \* train(): one-hot rows
    Gnx,             \* train(): the networkx graph
    G,               \* train(): the StellarGraph
    train_nodes, train_targets,
    val_nodes, val_targets,
    test_nodes, test_targets,
    model,           \* train(): the keras model
    all_predictions, \* train(): model.predict_generator(all_mapper)
    accuracy,        \* train(): matches and rows of the all-node comparison
    written,         \* history: the files written, in order
    trace,           \* history: the blocks entered, in order
    failed_at        \* history: the block that raised ("" if none)

vars == <<argv, fs, pc, args, edgelist, node_data, target_name, hyper,
          target_encoding, node_targets, Gnx, G, train_nodes, train_targets,
          val_nodes, val_targets, test_nodes, test_targets, model,
          all_predictions, accuracy, written, trace, failed_at>>

-----------------------------------------------------------------------------
(* Bounds of the model *)

MaxSmallRows == 2
MaxExtra == 1
MaxSeed == 1
MaxShift == 1
MaxListLen == 2

(* Constants of the script *)

TrainSize == 140
ValSize == 500
DefaultBatchSize == 20
DefaultEpochs == 10

None == "None"

Range(s) == {s[i] : i \in DOMAIN s}

-----------------------------------------------------------------------------
(* str(), "_".join() and str.format() *)

DigitChars == <<"0", "1", "2", "3", "4", "5", "6", "7", "8", "9">>

RECURSIVE NatStr(_)
NatStr(n) ==
    IF n < 10 THEN DigitChars[n + 1]
    ELSE NatStr(n \div 10) \o DigitChars[(n % 10) + 1]

IntStr(n) == IF n < 0 THEN "-" \o NatStr(0 - n) ELSE NatStr(n)

\* str(t / 1000.0) for 0 <= t: the shortest decimal, at least one fraction digit
FloatStr(t) ==
    LET d1 == (t % 1000) \div 100
        d2 == (t % 100) \div 10
        d3 == t % 10
        frac == IF d3 # 0 THEN DigitChars[d1 + 1] \o DigitChars[d2 + 1] \o DigitChars[d3 + 1]
                ELSE IF d2 # 0 THEN DigitChars[d1 + 1] \o DigitChars[d2 + 1]
                ELSE DigitChars[d1 + 1]
    IN  NatStr(t \div 1000) \o "." \o frac

RECURSIVE JoinWith(_, _)
JoinWith(sep, strs) ==
    IF Len(strs) = 0 THEN ""
    ELSE IF Len(strs) = 1 THEN strs[1]
    ELSE strs[1] \o sep \o JoinWith(sep, Tail(strs))

\* Faulty variant: the elements run together.
JoinNoSep(sep, strs) == JoinWith("", strs)

Join(sep, strs) == JoinWith(sep, strs)

StrList(ints) == [i \in 1..Len(ints) |-> IntStr(ints[i])]

SaveStr(num_samples, layer_size, dropout, learning_rate) ==
    "_n" \o Join("_", StrList(num_samples))
         \o "_l" \o Join("_", StrList(layer_size))
         \o "_d" \o FloatStr(dropout)
         \o "_r" \o FloatStr(learning_rate)

ModelFile(save_str) == "epgm_example_model" \o save_str \o ".h5"

EncodingFile(save_str) == "epgm_example_encoding" \o save_str \o ".pkl"

-----------------------------------------------------------------------------
(* The input files *)

\* The labels of the small and of the few-class node tables.
SmallLabels == <<"A", "A=B", "B">>

\* One more class than the first split has train rows.
ManyClasses == TrainSize + 1

\* The labels of the many-class node tables: "L000", "L001", ...
ManyLabel(i) ==
    "L" \o (IF i < 10 THEN "00" ELSE IF i < 100 THEN "0" ELSE "") \o NatStr(i)

ManyLabels == [i \in 1..ManyClasses |-> ManyLabel(i - 1)]

\* The label strings of the modelled files, in ascending code-point order
\* (the order list.sort() gives the feature names built from them).
LabelPool == SmallLabels \o ManyLabels

\* The 1433 word columns of the row with this ID, as one opaque value.
FeatureOf(id) == <<id % 2, (id \div 2) % 2>>

Row(id, subject) == [id |-> id, feature |-> FeatureOf(id), subject |-> subject]

SmallIds == 1..(MaxSmallRows + 1)

\* Node tables of 1..MaxSmallRows rows.  The IDs of a node table are
\* distinct (the table maps node IDs to rows); here they ascend.
SmallTables ==
    UNION { { [i \in 1..n |-> Row(ids[i], labs[i])] :
                ids \in {f \in [1..n -> SmallIds] : \A i \in 1..n, j \in 1..n : i < j => f[i] < f[j]},
                labs \in [1..n -> Range(SmallLabels)] } :
            n \in 1..MaxSmallRows }

SmallEdgelists ==
    { <<>>, << <<1, 2>> >>, << <<2, 3>> >>, << <<1, 1>> >>, << <<1, 2>>, <<2, 3>> >> }

IdBase == 1000

\* A node table of n rows over k classes (row i has class i mod k); with
\* lone, the first row is the only member of one more class.
LargeTable(n, k, lone) ==
    [i \in 1..n |->
        IF lone /\ i = 1 THEN Row(IdBase + i, SmallLabels[k + 1])
        ELSE Row(IdBase + i, SmallLabels[(i % k) + 1])]

\* A node table of n rows over k of the many labels (row i has class
\* i mod k).
ManyTable(n, k) ==
    [i \in 1..n |-> Row(IdBase + i, ManyLabels[(i % k) + 1])]

\* The path over the IDs of LargeTable(n, ..), and extra more IDs.
LargeEdgelist(n, extra) ==
    [i \in 1..(n - 1 + extra) |-> <<IdBase + i, IdBase + i + 1>>]

LargeSizes ==
    {TrainSize, TrainSize + 1, TrainSize + ValSize}
        \cup {TrainSize + ValSize + 1 + d : d \in 0..MaxExtra}

Files(cites_ok, cites, content_ok, content) ==
    [cites_ok |-> cites_ok, cites |-> cites, content_ok |-> content_ok, content |-> content]

\* Small files of every shape; node tables around the two split sizes with
\* their path as edge list; at the smallest size the split accepts, tables of
\* one and of two classes, with a class of one row, with an edge to an ID
\* of no row; and a missing file of either name.
FileSystems ==
    { Files(TRUE, e, TRUE, t) : e \in SmallEdgelists, t \in SmallTables }
        \cup { Files(TRUE, LargeEdgelist(n, 0), TRUE, LargeTable(n, Len(SmallLabels), FALSE)) :
                 n \in LargeSizes }
        \cup { Files(TRUE, LargeEdgelist(TrainSize + ValSize + 1, 0), TRUE,
                     LargeTable(TrainSize + ValSize + 1, 1, FALSE)),
               Files(TRUE, LargeEdgelist(TrainSize + ValSize + 1, 0), TRUE,
                     LargeTable(TrainSize + ValSize + 1, 2, TRUE)),
               Files(TRUE, LargeEdgelist(TrainSize + ValSize + 1, 1), TRUE,
                     LargeTable(TrainSize + ValSize + 1, 2, FALSE)),
               Files(FALSE, <<>>, TRUE, LargeTable(TrainSize, 1, FALSE)),
               Files(TRUE, <<>>, FALSE, <<>>) }

\* Node tables whose every class has two rows or more: of twice
\* ManyClasses rows, with as many classes as the first split has train rows
\* and with one class more; of the smallest size the second split accepts,
\* with one class more than train rows; and with one class less, two rows
\* each, which leaves the first split fewer other rows than classes.
ManyClassFileSystems ==
    { Files(TRUE, LargeEdgelist(2 * ManyClasses, 0), TRUE,
            ManyTable(2 * ManyClasses, TrainSize)),
      Files(TRUE, LargeEdgelist(2 * ManyClasses, 0), TRUE,
            ManyTable(2 * ManyClasses, ManyClasses)),
      Files(TRUE, LargeEdgelist(TrainSize + ValSize + 1, 0), TRUE,
            ManyTable(TrainSize + ValSize + 1, ManyClasses)),
      Files(TRUE, LargeEdgelist(2 * (TrainSize - 1), 0), TRUE,
            ManyTable(2 * (TrainSize - 1), TrainSize - 1)) }

-----------------------------------------------------------------------------
(* sklearn.feature_extraction.DictVectorizer(sparse=False) on the records  *)
(* {target_name: label}                                                    *)

Separator == "="

\* Faulty variant: no separator between the name and the value.
FeatureNameNoSep(name, value) == name \o value

FeatureName(name, value) == name \o Separator \o value

\* fit: the feature names of the records, sorted
FitFeatureNames(name, table) ==
    LET labels == {table[i].subject : i \in 1..Len(table)}
        sorted == SelectSeq(LabelPool, LAMBDA l : l \in labels)
    IN  [j \in 1..Len(sorted) |-> FeatureName(name, sorted[j])]

\* transform: one row per record, 1 in the column of its feature
Transform(feature_names, name, table) ==
    [i \in 1..Len(table) |->
        LET f == FeatureName(name, table[i].subject)
        IN  [j \in 1..Len(feature_names) |-> IF feature_names[j] = f THEN 1 ELSE 0]]

\* inverse_transform of one row: the dict of its nonzero entries
InverseTransform(feature_names, x) ==
    LET nz == {j \in 1..Len(feature_names) : x[j] # 0}
    IN  [f \in {feature_names[j] : j \in nz} |->
            x[CHOOSE j \in nz : feature_names[j] = f]]

\* DataFrame.idxmax(axis=1) of one row: the column of its largest value
IdxMax(d) ==
    IF DOMAIN d = {} THEN "nan"
    ELSE CHOOSE c \in DOMAIN d : \A e \in DOMAIN d : d[e] <= d[c]

\* The all-node comparison: rows whose decoded prediction is "subject=" + label
Matches(feature_names, predictions, table) ==
    Cardinality({i \in 1..Len(table) :
        "subject=" \o table[i].subject
            = IdxMax(InverseTransform(feature_names, predictions[i]))})

-----------------------------------------------------------------------------
(* networkx: from_pandas_edgelist and the node attribute loop of train()   *)

\* A node's attribute dict: <<>> (empty) or <<feature, label>>.
NoAttrs == <<>>

FromPandasEdgelist(edges) ==
    LET nodes == {edges[i][1] : i \in 1..Len(edges)} \cup {edges[i][2] : i \in 1..Len(edges)}
    IN  [nodes |-> nodes, attrs |-> [n \in nodes |-> NoAttrs]]

\* The rows the loop handles before Gnx.node[nid] raises KeyError: all of
\* them, or those before the first row whose ID is no node of the graph.
RowsSet(g, table) ==
    LET bad == {i \in 1..Len(table) : table[i].id \notin g.nodes}
    IN  IF bad = {} THEN Len(table)
        ELSE (CHOOSE i \in bad : \A j \in bad : i <= j) - 1

\* The attribute dicts the loop writes on the rows lo..hi; a later row of
\* the same ID overwrites an earlier one.
RECURSIVE LoopAttrs(_, _, _)
LoopAttrs(table, lo, hi) ==
    IF lo > hi THEN <<>>
    ELSE IF lo = hi THEN table[lo].id :> <<table[lo].feature, "paper">>
    ELSE LET mid == (lo + hi) \div 2
         IN  LoopAttrs(table, mid + 1, hi) @@ LoopAttrs(table, lo, mid)

\* Faulty variant: the loop stops one row early.
SetNodeAttrsButLast(g, table, upto) ==
    [g EXCEPT !.attrs = LoopAttrs(table, 1, upto - 1) @@ g.attrs]

\* for nid, f in zip(node_data.index, node_features):
\*     Gnx.node[nid]["feature"] = f; Gnx.node[nid]["label"] = "paper"
SetNodeAttrs(g, table, upto) ==
    [g EXCEPT !.attrs = LoopAttrs(table, 1, upto) @@ g.attrs]

Unattributed(g) == {n \in g.nodes : g.attrs[n] = NoAttrs}

-----------------------------------------------------------------------------
(* sklearn.model_selection.train_test_split                                *)

\* The sum of f over the members of S between lo and hi
RECURSIVE SumBetween(_, _, _, _)
SumBetween(f, S, lo, hi) ==
    IF lo > hi THEN 0
    ELSE IF lo = hi THEN (IF lo \in S THEN f[lo] ELSE 0)
    ELSE LET mid == (lo + hi) \div 2
         IN  SumBetween(f, S, lo, mid) + SumBetween(f, S, mid + 1, hi)

\* np.sum of f over the classes S (column numbers)
SumOver(f, S) ==
    IF S = {} THEN 0
    ELSE SumBetween(f, S, CHOOSE a \in S : \A z \in S : a <= z,
                          CHOOSE b \in S : \A z \in S : z <= b)

\* rng.permutation: the modelled permutations are the rotations
Rotate(s, r) ==
    IF Len(s) = 0 THEN s
    ELSE [i \in 1..Len(s) |-> s[((i - 1 + r) % Len(s)) + 1]]

Take(s, idx) == [k \in 1..Len(idx) |-> s[idx[k]]]

\* _validate_shuffle_split with an integer train_size and test_size=None
ValidSizes(n_samples, train_size) == train_size < n_samples /\ train_size > 0

\* The class of a row of y is the row itself; a one-hot row is named by its
\* hot column.
ClassOf(y, i) == CHOOSE j \in 1..Len(y[i]) : y[i][j] = 1

\* np.unique(y, return_inverse=True): the class of every row
RowClasses(y) == [i \in 1..Len(y) |-> ClassOf(y, i)]

\* The positions of the rows of class c, ascending
ClassIndices(rc, c) == SelectSeq([i \in 1..Len(rc) |-> i], LAMBDA i : rc[i] = c)

\* np.bincount of the rows' classes
ClassCounts(rc) ==
    [c \in Range(rc) |-> Cardinality({i \in 1..Len(rc) : rc[i] = c})]

\* StratifiedShuffleSplit's checks: no class of fewer than 2 rows, and
\* neither side smaller than the number of classes
ValidStratify(counts, n_train, n_test) ==
    /\ \A c \in DOMAIN counts : counts[c] >= 2
    /\ n_train >= Cardinality(DOMAIN counts)
    /\ n_test >= Cardinality(DOMAIN counts)

\* The subsets of S of k elements
RECURSIVE KSubsets(_, _)
KSubsets(S, k) ==
    IF k = 0 THEN {{}}
    ELSE IF k = Cardinality(S) THEN {S}
    ELSE LET x == CHOOSE x \in S : TRUE
         IN  {T \cup {x} : T \in KSubsets(S \ {x}, k - 1)} \cup KSubsets(S \ {x}, k)

\* _approximate_mode: the floors of the proportional shares, the rest given
\* to the classes of largest remainder, ties broken at random
ApproximateModes(counts, n_draws) ==
    LET cls == DOMAIN counts
        total == SumOver(counts, cls)
        floored == [c \in cls |-> (n_draws * counts[c]) \div total]
        rem == [c \in cls |-> (n_draws * counts[c]) % total]
        need == n_draws - SumOver(floored, cls)
        \* the remainder at which the classes no longer all fit
        last == CHOOSE v \in Range(rem) :
                    /\ Cardinality({c \in cls : rem[c] > v}) < need
                    /\ Cardinality({c \in cls : rem[c] >= v}) >= need
        above == {c \in cls : rem[c] > last}
        tied == {c \in cls : rem[c] = last}
    IN  IF need = 0 THEN {floored}
        ELSE { [c \in cls |-> floored[c] + (IF c \in above \cup T THEN 1 ELSE 0)] :
                 T \in KSubsets(tied, need - Cardinality(above)) }

\* np.unique sorts the rows as strings: the class with the later hot column
\* comes first
ClassOrder(cls) ==
    [r \in 1..Cardinality(cls) |->
        CHOOSE c \in cls : Cardinality({z \in cls : z > c}) = r - 1]

\* The rows picked for one side, class after class in the order given
RECURSIVE StratifiedPick(_, _, _, _, _, _)
StratifiedPick(rc, order, n_i, t_i, seed, part) ==
    IF order = <<>> THEN <<>>
    ELSE IF Len(order) = 1
    THEN LET c == order[1]
             perm == Rotate(ClassIndices(rc, c), seed)
         IN  IF part = "train" THEN SubSeq(perm, 1, n_i[c])
             ELSE SubSeq(perm, n_i[c] + 1, n_i[c] + t_i[c])
    ELSE LET mid == Len(order) \div 2
         IN  StratifiedPick(rc, SubSeq(order, 1, mid), n_i, t_i, seed, part)
                 \o StratifiedPick(rc, SubSeq(order, mid + 1, Len(order)), n_i, t_i, seed, part)

\* Faulty variant: the test slice of a class with train rows starts one
\* position early.
StratifiedOverlapping(rc, counts, n_test, n_i, seed) ==
    LET t_i == [c \in DOMAIN counts |-> counts[c] - n_i[c] + (IF n_i[c] > 0 THEN 1 ELSE 0)]
        shifted == [c \in DOMAIN counts |-> IF n_i[c] > 0 THEN n_i[c] - 1 ELSE 0]
        order == ClassOrder(DOMAIN counts)
    IN  [train |-> Rotate(StratifiedPick(rc, order, n_i, t_i, seed, "train"), seed),
         test |-> Rotate(StratifiedPick(rc, order, shifted, t_i, seed, "test"), seed)]

\* StratifiedShuffleSplit._iter_indices: the positions of train and test
Stratified(rc, counts, n_test, n_i, seed) ==
    LET t_i == CHOOSE t \in ApproximateModes([c \in DOMAIN counts |-> counts[c] - n_i[c]], n_test) : TRUE
        order == ClassOrder(DOMAIN counts)
    IN  [train |-> Rotate(StratifiedPick(rc, order, n_i, t_i, seed, "train"), seed),
         test |-> Rotate(StratifiedPick(rc, order, n_i, t_i, seed, "test"), seed)]

\* Faulty variant: the train slice ends one position early.
ShuffledShort(n_samples, n_train, n_test, seed) ==
    LET perm == Rotate([i \in 1..n_samples |-> i], seed)
    IN  [train |-> SubSeq(perm, n_test + 1, n_test + n_train - 1),
         test |-> SubSeq(perm, 1, n_test)]

\* ShuffleSplit._iter_indices
Shuffled(n_samples, n_train, n_test, seed) ==
    LET perm == Rotate([i \in 1..n_samples |-> i], seed)
    IN  [train |-> SubSeq(perm, n_test + 1, n_test + n_train),
         test |-> SubSeq(perm, 1, n_test)]

-----------------------------------------------------------------------------
(* The run *)

\* Faulty variant: the model is saved before it is trained.
BlocksSaveBeforeFit ==
    <<"parse_args", "load_edgelist", "load_node_data", "train", "encode_targets",
      "build_graph", "split_train", "split_val", "build_model", "save_model", "fit",
      "evaluate", "predict", "decode", "save_encoding">>

\* Faulty variant: the split runs before the graph is built.
BlocksSplitBeforeGraph ==
    <<"parse_args", "load_edgelist", "load_node_data", "train", "encode_targets",
      "split_train", "split_val", "build_graph", "build_model", "fit", "evaluate",
      "predict", "decode", "save_model", "save_encoding">>

\* The statements of the script and of train(), in program order.
Blocks ==
    <<"parse_args", "load_edgelist", "load_node_data", "train", "encode_targets",
      "build_graph", "split_train", "split_val", "build_model", "fit", "evaluate",
      "predict", "decode", "save_model", "save_encoding">>

BlockIndex(b) == CHOOSE k \in 1..Len(Blocks) : Blocks[k] = b

NextBlock(b) ==
    IF b \in Range(Blocks) /\ BlockIndex(b) < Len(Blocks) THEN Blocks[BlockIndex(b) + 1]
    ELSE "done"

\* The runs' hyperparameters: the defaults, the ones of the documented
\* example, and short lists of short numbers.
HyperRuns ==
    { [neighbour_samples |-> <<20, 10>>, layer_size |-> <<20, 20>>, dropout |-> 0, learningrate |-> 5],
      [neighbour_samples |-> <<5, 5>>, layer_size |-> <<8, 8>>, dropout |-> 100, learningrate |-> 10],
      [neighbour_samples |-> <<1, 1>>, layer_size |-> <<1>>, dropout |-> 500, learningrate |-> 1000] }

\* Command lines: every combination of a value that does or does not
\* coerce, a checkpoint or none, a graph directory or none, with the
\* default hyperparameters and either target, or with other
\* hyperparameters and the default target.
CommandLines ==
    { [valid |-> v, checkpoint |-> c, graph |-> g, target |-> ht[2],
       neighbour_samples |-> ht[1].neighbour_samples, layer_size |-> ht[1].layer_size,
       dropout |-> ht[1].dropout, learningrate |-> ht[1].learningrate,
       batch_size |-> DefaultBatchSize, epochs |-> DefaultEpochs] :
        v \in BOOLEAN, c \in {None, "model.h5"}, g \in {None, "~/data/cora"},
        ht \in {x \in HyperRuns \X {"subject", "paper_type"} :
                  x[2] = "subject" \/ x[1].dropout = 0} }

\* The command line of the documented run with the defaults.
DefaultCommandLine(a) ==
    /\ a.valid /\ a.checkpoint = None /\ a.graph # None
    /\ a.target = "subject" /\ a.dropout = 0

\* The files a run is started on: the many-class tables with the default
\* command line only.
FileSystemsFor(a) ==
    IF DefaultCommandLine(a) THEN FileSystems \cup ManyClassFileSystems ELSE FileSystems

NoModel == [built |-> FALSE, trained |-> FALSE, shift |-> 0]

Init ==
    /\ argv \in CommandLines
    /\ fs \in FileSystemsFor(argv)
    /\ pc = "parse_args"
    /\ args = None
    /\ edgelist = <<>>
    /\ node_data = <<>>
    /\ target_name = None
    /\ hyper = None
    /\ target_encoding = <<>>
    /\ node_targets = <<>>
    /\ Gnx = FromPandasEdgelist(<<>>)
    /\ G = FromPandasEdgelist(<<>>)
    /\ train_nodes = <<>> /\ train_targets = <<>>
    /\ val_nodes = <<>> /\ val_targets = <<>>
    /\ test_nodes = <<>> /\ test_targets = <<>>
    /\ model = NoModel
    /\ all_predictions = <<>>
    /\ accuracy = [correct |-> 0, total |-> 0]
    /\ written = <<>>
    /\ trace = <<>>
    /\ failed_at = ""

inputs == <<argv, fs>>
splits == <<train_nodes, train_targets, val_nodes, val_targets, test_nodes, test_targets>>
graphs == <<Gnx, G>>
encoded == <<target_encoding, node_targets>>
learned == <<model, all_predictions, accuracy>>

Enter(block) == trace' = Append(trace, block)

Goto(block) == pc' = block /\ failed_at' = failed_at

\* Faulty variant: the exception is swallowed and the run goes on.
RaiseCaught(block) == pc' = NextBlock(block) /\ failed_at' = block

\* Nothing catches an exception: the run ends where it is raised.
Raise(block) == pc' = "failed" /\ failed_at' = block

\* parser.parse_known_args(): a value that does not coerce exits the run
ParseArgs ==
    /\ pc = "parse_args"
    /\ Enter("parse_args")
    /\ IF argv.valid
       THEN args' = argv /\ Goto(NextBlock("parse_args"))
       ELSE args' = args /\ Raise("parse_args")
    /\ UNCHANGED <<inputs, edgelist, node_data, target_name, hyper, encoded, graphs,
                   splits, learned, written>>

\* os.path.expanduser(args.graph) and pd.read_table(cora.cites)
LoadEdgelist ==
    /\ pc = "load_edgelist"
    /\ Enter("load_edgelist")
    /\ IF args.graph # None /\ fs.cites_ok
       THEN edgelist' = fs.cites /\ Goto(NextBlock("load_edgelist"))
       ELSE edgelist' = edgelist /\ Raise("load_edgelist")
    /\ UNCHANGED <<inputs, args, node_data, target_name, hyper, encoded, graphs,
                   splits, learned, written>>

\* pd.read_table(cora.content): the first column becomes the index
LoadNodeData ==
    /\ pc = "load_node_data"
    /\ Enter("load_node_data")
    /\ IF fs.content_ok
       THEN node_data' = fs.content /\ Goto(IF args.checkpoint = None THEN NextBlock("load_node_data") ELSE "test")
       ELSE node_data' = node_data /\ Raise("load_node_data")
    /\ UNCHANGED <<inputs, args, edgelist, target_name, hyper, encoded, graphs,
                   splits, learned, written>>

\* Faulty variant: the call hands args.target to train().
PassTarget(a) == a.target

\* The call of train() gives no target_name: the parameter takes its default.
TrainTargetName(a) == "subject"

CallTrain ==
    /\ pc = "train"
    /\ Enter("train")
    /\ target_name' = TrainTargetName(args)
    /\ hyper' = [layer_size |-> args.layer_size, num_samples |-> args.neighbour_samples,
                 batch_size |-> args.batch_size, num_epochs |-> args.epochs,
                 learning_rate |-> args.learningrate, dropout |-> args.dropout]
    /\ Goto(NextBlock("train"))
    /\ UNCHANGED <<inputs, args, edgelist, node_data, encoded, graphs, splits, learned, written>>

\* Faulty variant: the module binds G before the fork.
GlobalGBoundAlways == TRUE

\* No statement of the module binds the name G.
GlobalGBound == FALSE

\* test(G, args.checkpoint, args.batch_size): the arguments are evaluated
\* first; test() itself is "pass"
CallTest ==
    /\ pc = "test"
    /\ Enter("test")
    /\ IF GlobalGBound THEN Goto("done") ELSE Raise("test")
    /\ UNCHANGED <<inputs, args, edgelist, node_data, target_name, hyper, encoded, graphs,
                   splits, learned, written>>

NodeIds == [i \in 1..Len(node_data) |-> node_data[i].id]

EncodeTargets ==
    /\ pc = "encode_targets"
    /\ Enter("encode_targets")
    /\ IF target_name = "subject"
       THEN /\ target_encoding' = FitFeatureNames(target_name, node_data)
            /\ node_targets' = Transform(target_encoding', target_name, node_data)
            /\ Goto(NextBlock("encode_targets"))
       ELSE UNCHANGED encoded /\ Raise("encode_targets")
    /\ UNCHANGED <<inputs, args, edgelist, node_data, target_name, hyper, graphs,
                   splits, learned, written>>

\* Gnx, the attribute loop, StellarGraph(Gnx) and fit_attribute_spec()
BuildGraph ==
    /\ pc = "build_graph"
    /\ Enter("build_graph")
    /\ LET g0 == FromPandasEdgelist(edgelist)
           upto == RowsSet(g0, node_data)
           g1 == SetNodeAttrs(g0, node_data, upto)
       IN  /\ Gnx' = g1
           /\ IF upto < Len(node_data)
              THEN G' = G /\ Raise("build_graph")
              ELSE \E accepted \in BOOLEAN :
                     IF Unattributed(g1) = {} \/ accepted
                     THEN G' = g1 /\ Goto(NextBlock("build_graph"))
                     ELSE G' = G /\ Raise("build_graph")
    /\ UNCHANGED <<inputs, args, edgelist, node_data, target_name, hyper, encoded,
                   splits, learned, written>>

\* train_test_split(node_ids, node_targets, train_size=140, test_size=None,
\*                  stratify=node_targets)
SplitTrain ==
    /\ pc = "split_train"
    /\ Enter("split_train")
    /\ LET n == Len(node_data)
           rc == RowClasses(node_targets)
           counts == ClassCounts(rc)
       IN
       IF ValidSizes(n, TrainSize) /\ ValidStratify(counts, TrainSize, n - TrainSize)
       THEN \E seed \in 0..MaxSeed :
            \E n_i \in ApproximateModes(counts, TrainSize) :
              LET idx == Stratified(rc, counts, n - TrainSize, n_i, seed)
              IN  /\ train_nodes' = Take(NodeIds, idx.train)
                  /\ train_targets' = Take(node_targets, idx.train)
                  /\ test_nodes' = Take(NodeIds, idx.test)
                  /\ test_targets' = Take(node_targets, idx.test)
                  /\ Goto(NextBlock("split_train"))
       ELSE /\ UNCHANGED <<train_nodes, train_targets, test_nodes, test_targets>>
            /\ Raise("split_train")
    /\ UNCHANGED <<inputs, args, edgelist, node_data, target_name, hyper, encoded, graphs,
                   val_nodes, val_targets, learned, written>>

\* train_test_split(test_nodes, test_targets, train_size=500, test_size=None)
SplitVal ==
    /\ pc = "split_val"
    /\ Enter("split_val")
    /\ LET n == Len(test_nodes) IN
       IF ValidSizes(n, ValSize)
       THEN \E seed \in 0..MaxSeed :
              LET idx == Shuffled(n, ValSize, n - ValSize, seed)
              IN  /\ val_nodes' = Take(test_nodes, idx.train)
                  /\ val_targets' = Take(test_targets, idx.train)
                  /\ test_nodes' = Take(test_nodes, idx.test)
                  /\ test_targets' = Take(test_targets, idx.test)
                  /\ Goto(NextBlock("split_val"))
       ELSE /\ UNCHANGED <<val_nodes, val_targets, test_nodes, test_targets>>
            /\ Raise("split_val")
    /\ UNCHANGED <<inputs, args, edgelist, node_data, target_name, hyper, encoded, graphs,
                   train_nodes, train_targets, learned, written>>

\* The mappers, GraphSAGE, the Dense layer, keras.Model and compile()
BuildModel ==
    /\ pc = "build_model"
    /\ Enter("build_model")
    /\ \E ok \in BOOLEAN :
         IF ok
         THEN model' = [built |-> TRUE, trained |-> FALSE, shift |-> 0] /\ Goto(NextBlock("build_model"))
         ELSE model' = model /\ Raise("build_model")
    /\ UNCHANGED <<inputs, args, edgelist, node_data, target_name, hyper, encoded, graphs,
                   splits, all_predictions, accuracy, written>>

\* model.fit_generator(): the weights it ends with are any
Fit ==
    /\ pc = "fit"
    /\ Enter("fit")
    /\ \E ok \in BOOLEAN, shift \in 0..MaxShift :
         IF ok
         THEN model' = [built |-> TRUE, trained |-> TRUE, shift |-> shift] /\ Goto(NextBlock("fit"))
         ELSE model' = model /\ Raise("fit")
    /\ UNCHANGED <<inputs, args, edgelist, node_data, target_name, hyper, encoded, graphs,
                   splits, all_predictions, accuracy, written>>

\* model.evaluate_generator(test_mapper) and the printed metrics
Evaluate ==
    /\ pc = "evaluate"
    /\ Enter("evaluate")
    /\ \E ok \in BOOLEAN : IF ok THEN Goto(NextBlock("evaluate")) ELSE Raise("evaluate")
    /\ UNCHANGED <<inputs, args, edgelist, node_data, target_name, hyper, encoded, graphs,
                   splits, learned, written>>

\* The model's output for a node of the given one-hot target: with shift 0
\* the target itself, else a softer row that peaks shift columns further.
PredictRow(m, y) ==
    LET n == Len(y)
        c == CHOOSE j \in 1..n : y[j] = 1
        peak == ((c - 1 + m.shift) % n) + 1
    IN  [j \in 1..n |-> IF m.shift = 0 THEN (IF j = peak THEN 1 ELSE 0)
                        ELSE (IF j = peak THEN 2 ELSE 1)]

\* model.predict_generator(all_mapper)
Predict ==
    /\ pc = "predict"
    /\ Enter("predict")
    /\ \E ok \in BOOLEAN :
         IF ok
         THEN /\ all_predictions' = [i \in 1..Len(node_targets) |-> PredictRow(model, node_targets[i])]
              /\ Goto(NextBlock("predict"))
         ELSE all_predictions' = all_predictions /\ Raise("predict")
    /\ UNCHANGED <<inputs, args, edgelist, node_data, target_name, hyper, encoded, graphs,
                   splits, model, accuracy, written>>

\* inverse_transform, idxmax and the comparison with "subject=" + label
Decode ==
    /\ pc = "decode"
    /\ Enter("decode")
    /\ accuracy' = [correct |-> Matches(target_encoding, all_predictions, node_data),
                    total |-> Len(node_data)]
    /\ Goto(NextBlock("decode"))
    /\ UNCHANGED <<inputs, args, edgelist, node_data, target_name, hyper, encoded, graphs,
                   splits, model, all_predictions, written>>

RunSaveStr == SaveStr(hyper.num_samples, hyper.layer_size, hyper.dropout, hyper.learning_rate)

\* model.save("epgm_example_model" + save_str + ".h5")
SaveModel ==
    /\ pc = "save_model"
    /\ Enter("save_model")
    /\ \E ok \in BOOLEAN :
         IF ok
         THEN written' = Append(written, ModelFile(RunSaveStr)) /\ Goto(NextBlock("save_model"))
         ELSE written' = written /\ Raise("save_model")
    /\ UNCHANGED <<inputs, args, edgelist, node_data, target_name, hyper, encoded, graphs,
                   splits, learned>>

\* open("epgm_example_encoding" + save_str + ".pkl", "wb") and pickle.dump
SaveEncoding ==
    /\ pc = "save_encoding"
    /\ Enter("save_encoding")
    /\ \E ok \in BOOLEAN :
         IF ok
         THEN written' = Append(written, EncodingFile(RunSaveStr)) /\ Goto(NextBlock("save_encoding"))
         ELSE written' = written /\ Raise("save_encoding")
    /\ UNCHANGED <<inputs, args, edgelist, node_data, target_name, hyper, encoded, graphs,
                   splits, learned>>

Next ==
    \/ ParseArgs
    \/ LoadEdgelist
    \/ LoadNodeData
    \/ CallTrain
    \/ CallTest
    \/ EncodeTargets
    \/ BuildGraph
    \/ SplitTrain
    \/ SplitVal
    \/ BuildModel
    \/ Fit
    \/ Evaluate
    \/ Predict
    \/ Decode
    \/ SaveModel
    \/ SaveEncoding

Spec == Init /\ [][Next]_vars

-----------------------------------------------------------------------------
(* Properties *)

Entered(block) == \E i \in 1..Len(trace) : trace[i] = block

Completed(block) == Entered(block) /\ pc # block /\ failed_at # block

Occurrences(block) == Cardinality({i \in 1..Len(trace) : trace[i] = block})

IsPrefix(s, t) == Len(s) <= Len(t) /\ \A i \in 1..Len(s) : s[i] = t[i]

NoRepeats(s) == Cardinality(Range(s)) = Len(s)

Min(a, b) == IF a <= b THEN a ELSE b

NumRows == Len(node_data)

\* Both calls of train_test_split have returned.
SplitProduced == Completed("split_train") /\ Completed("split_val")

\* The split has been run to its end: it produced the three sets or raised.
SplitOver == Entered("split_train") /\ pc # "split_train" /\ pc # "split_val"

\* C1: once both splits have returned, the train, validation and test node
\* IDs are pairwise disjoint, none occurs twice, and together they are
\* exactly the node IDs of the node table.
Thm_C1_SplitPartitions ==
    SplitProduced =>
        /\ Range(train_nodes) \cap Range(val_nodes) = {}
        /\ Range(train_nodes) \cap Range(test_nodes) = {}
        /\ Range(val_nodes) \cap Range(test_nodes) = {}
        /\ Range(train_nodes) \cup Range(val_nodes) \cup Range(test_nodes) = Range(NodeIds)
        /\ NoRepeats(train_nodes) /\ NoRepeats(val_nodes) /\ NoRepeats(test_nodes)
        /\ Len(train_nodes) + Len(val_nodes) + Len(test_nodes) = NumRows

Wit_C1_SplitPartitions ==
    /\ SplitProduced
    /\ NumRows > TrainSize + ValSize + 1
    /\ Len(target_encoding) = 3

\* C2 as stated: for every N the split yields |train| = min(140, N),
\* |validation| = min(500, N - |train|) and |test| = the rest.
Orig_C2_SizesForEveryN ==
    SplitOver =>
        /\ SplitProduced
        /\ Len(train_nodes) = Min(TrainSize, NumRows)
        /\ Len(val_nodes) = Min(ValSize, NumRows - Len(train_nodes))
        /\ Len(test_nodes) = NumRows - Len(train_nodes) - Len(val_nodes)

\* The labels of the node table's target column, and the rows of a label.
Labels == {node_data[i].subject : i \in 1..NumRows}

LabelCount(l) == Cardinality({i \in 1..NumRows : node_data[i].subject = l})

\* N > 140, every label on two rows or more, and no more labels than 140
\* or than N - 140.
FirstSplitAccepts ==
    /\ NumRows > TrainSize
    /\ LET labels == Labels
       IN  /\ Cardinality(labels) <= TrainSize
           /\ Cardinality(labels) <= NumRows - TrainSize
           /\ \A l \in labels : LabelCount(l) >= 2

\* C2 amended: neither train_test_split clamps its train_size.  The first
\* returns (140 train IDs and N - 140 others) exactly when N > 140, every
\* label is on at least two rows, and the labels number at most 140 and at
\* most N - 140; otherwise it raises and no set is assigned.  When the first
\* has returned, the second raises if N <= 640, leaving the validation set
\* unassigned, and otherwise returns: then |train| = 140,
\* |validation| = 500 and |test| = N - 640, for IDs and targets alike.
Thm_C2_SizesWhenLargeEnough ==
    SplitOver =>
        LET accepts == FirstSplitAccepts IN
        /\ ~accepts =>
              /\ pc = "failed" /\ failed_at = "split_train"
              /\ train_nodes = <<>> /\ val_nodes = <<>> /\ test_nodes = <<>>
              /\ train_targets = <<>> /\ val_targets = <<>> /\ test_targets = <<>>
        /\ (accepts /\ NumRows <= TrainSize + ValSize) =>
              /\ pc = "failed" /\ failed_at = "split_val"
              /\ Len(train_nodes) = TrainSize
              /\ Len(train_targets) = TrainSize
              /\ Len(test_nodes) = NumRows - TrainSize
              /\ Len(test_targets) = NumRows - TrainSize
              /\ val_nodes = <<>> /\ val_targets = <<>>
        /\ (accepts /\ NumRows > TrainSize + ValSize) =>
              /\ SplitProduced
              /\ Len(train_nodes) = TrainSize
              /\ Len(val_nodes) = ValSize
              /\ Len(test_nodes) = NumRows - TrainSize - ValSize
              /\ Len(train_targets) = TrainSize
              /\ Len(val_targets) = ValSize
              /\ Len(test_targets) = NumRows - TrainSize - ValSize

Wit_C2_SizesWhenLargeEnough ==
    /\ SplitProduced
    /\ NumRows = TrainSize + ValSize + 2
    /\ Len(test_nodes) = 2

\* The cases of C2 in which a split raises, and the largest number of
\* labels the first split accepts; each is reached.
C2_TooFewRows ==
    SplitOver /\ NumRows <= TrainSize /\ failed_at = "split_train"

C2_LoneLabel ==
    /\ SplitOver /\ NumRows > TrainSize + ValSize /\ failed_at = "split_train"
    /\ \E l \in Labels : LabelCount(l) < 2

C2_MoreLabelsThanTrainRows ==
    /\ SplitOver /\ NumRows > TrainSize + ValSize /\ failed_at = "split_train"
    /\ \A l \in Labels : LabelCount(l) >= 2
    /\ Cardinality(Labels) = TrainSize + 1

C2_MoreLabelsThanOtherRows ==
    /\ SplitOver /\ NumRows > TrainSize /\ failed_at = "split_train"
    /\ \A l \in Labels : LabelCount(l) >= 2
    /\ Cardinality(Labels) <= TrainSize
    /\ Cardinality(Labels) > NumRows - TrainSize

C2_SecondSplitRaises ==
    /\ SplitOver /\ failed_at = "split_val"
    /\ NumRows <= TrainSize + ValSize /\ Len(test_nodes) = NumRows - TrainSize

C2_AsManyLabelsAsTrainRows ==
    /\ SplitOver /\ failed_at = "split_val"
    /\ Cardinality(Labels) = TrainSize
    /\ Len(train_nodes) = TrainSize
    /\ Len(test_nodes) = NumRows - TrainSize

\* C3: after the encoder is fitted, every row's one-hot target decodes
\* (inverse_transform, then the column of the largest value) to "subject="
\* followed by the row's label; and a model that predicts every target
\* exactly is counted right on every row by the all-node comparison.
Thm_C3_LabelRoundTrip ==
    /\ Completed("encode_targets") =>
          \A i \in 1..NumRows :
              IdxMax(InverseTransform(target_encoding, node_targets[i]))
                  = "subject=" \o node_data[i].subject
    /\ (Completed("decode") /\ model.shift = 0) => accuracy.correct = accuracy.total

Wit_C3_LabelRoundTrip ==
    /\ Completed("decode")
    /\ model.shift = 0
    /\ Len(target_encoding) = 3
    /\ \E i \in 1..NumRows : node_data[i].subject = "A=B"

\* The hyperparameters a second run may have: lists of at most MaxListLen
\* of the numbers 1 and 11 and the lists of the modelled runs, and a few
\* dropouts and learning rates.
ListSpace ==
    UNION { [1..n -> {1, 11}] : n \in 0..MaxListLen }
        \cup {h.neighbour_samples : h \in HyperRuns} \cup {h.layer_size : h \in HyperRuns}

HyperSpace ==
    [num_samples : ListSpace, layer_size : ListSpace,
     dropout : {0, 1, 100, 500}, learning_rate : {1, 5, 10, 1000}]

SaveStrOf(h) == SaveStr(h.num_samples, h.layer_size, h.dropout, h.learning_rate)

\* Each run of HyperSpace with the suffix it gives its files.
SaveStrTable == {<<h, SaveStrOf(h)>> : h \in HyperSpace}

RunHyper ==
    [num_samples |-> hyper.num_samples, layer_size |-> hyper.layer_size,
     dropout |-> hyper.dropout, learning_rate |-> hyper.learning_rate]

\* C4: the two files are named epgm_example_model<s>.h5 and
\* epgm_example_encoding<s>.pkl with one suffix <s> =
\* _n<samples>_l<layers>_d<dropout>_r<lr>, list elements joined by "_" (the
\* documented example and the defaults give the documented names); a run of
\* any other hyperparameters would name neither file as this run did.
Thm_C4_FileNamesEncodeHyper ==
    written # <<>> =>
        /\ RunHyper \in HyperSpace
        /\ written[1] = ModelFile(RunSaveStr)
        /\ Len(written) = 2 => written[2] = EncodingFile(RunSaveStr)
        /\ LET mine == RunSaveStr
           IN  \A p \in SaveStrTable : p[2] = mine => p[1] = RunHyper
        /\ (Len(written) = 2 /\ RunHyper = [num_samples |-> <<5, 5>>, layer_size |-> <<8, 8>>,
                                            dropout |-> 100, learning_rate |-> 10]) =>
              written = <<"epgm_example_model_n5_5_l8_8_d0.1_r0.01.h5",
                          "epgm_example_encoding_n5_5_l8_8_d0.1_r0.01.pkl">>
        /\ (Len(written) = 2 /\ RunHyper = [num_samples |-> <<20, 10>>, layer_size |-> <<20, 20>>,
                                            dropout |-> 0, learning_rate |-> 5]) =>
              written = <<"epgm_example_model_n20_10_l20_20_d0.0_r0.005.h5",
                          "epgm_example_encoding_n20_10_l20_20_d0.0_r0.005.pkl">>
        /\ (Len(written) = 2 /\ RunHyper = [num_samples |-> <<1, 1>>, layer_size |-> <<1>>,
                                            dropout |-> 500, learning_rate |-> 1000]) =>
              written = <<"epgm_example_model_n1_1_l1_d0.5_r1.0.h5",
                          "epgm_example_encoding_n1_1_l1_d0.5_r1.0.pkl">>

Wit_C4_FileNamesEncodeHyper ==
    /\ pc = "done"
    /\ Len(written) = 2
    /\ hyper.num_samples = <<1, 1>>

TrainBlocks == {Blocks[k] : k \in 4..Len(Blocks)}

\* C5: a run given a checkpoint never enters train() or any of its blocks,
\* writes no file and never ends normally; once it reaches the call of
\* test() it has failed there, and whenever it has stopped it has failed.
Thm_C5_CheckpointRunFails ==
    argv.checkpoint # None =>
        /\ pc # "done"
        /\ \A b \in TrainBlocks : ~Entered(b) /\ pc # b
        /\ written = <<>>
        /\ Entered("test") => pc = "failed" /\ failed_at = "test"
        /\ ~(ENABLED Next) => pc = "failed"

Wit_C5_CheckpointRunFails ==
    /\ argv.checkpoint # None
    /\ Entered("test")
    /\ pc = "failed"
    /\ node_data # <<>>

ModelWritten == \E i \in 1..Len(written) : written[i] = ModelFile(RunSaveStr)

EncodingWritten == \E i \in 1..Len(written) : written[i] = EncodingFile(RunSaveStr)

Final == pc \in {"done", "failed"}

\* C6 as stated: each file is written at most once, only after training,
\* evaluation and prediction, and in every final state, normal or failed,
\* the model file is written iff the encoder file is.
Orig_C6_WrittenTogether ==
    /\ Len(written) <= 2 /\ NoRepeats(written)
    /\ written # <<>> => Completed("fit") /\ Completed("evaluate") /\ Completed("predict")
    /\ Final => (ModelWritten <=> EncodingWritten)

\* C6 amended: each file is written at most once, only after training,
\* evaluation and prediction completed, the model file first; a run that
\* ends normally has written both; a failed run has written neither, except
\* a run that fails while writing the encoder file, which leaves the model
\* file without the encoder file.
Thm_C6_WrittenInOrder ==
    /\ Len(written) <= 2 /\ NoRepeats(written)
    /\ written # <<>> =>
          /\ Completed("fit") /\ Completed("evaluate") /\ Completed("predict")
          /\ written[1] = ModelFile(RunSaveStr)
          /\ Len(written) = 2 => written[2] = EncodingFile(RunSaveStr)
    /\ pc = "done" => Len(written) = 2
    /\ pc = "failed" => /\ Len(written) <= 1
                        /\ Len(written) = 1 <=> failed_at = "save_encoding"

Wit_C6_WrittenInOrder ==
    /\ pc = "failed"
    /\ failed_at = "save_encoding"
    /\ ModelWritten /\ ~EncodingWritten

\* C7: once a block has raised, the run is in the failed state, the block
\* that raised is the last one entered and was entered once, and no further
\* step is possible.
Thm_C7_FailureAborts ==
    /\ failed_at # "" =>
          /\ pc = "failed"
          /\ trace[Len(trace)] = failed_at
          /\ Occurrences(failed_at) = 1
          /\ ~(ENABLED Next)
    /\ pc = "failed" => failed_at # ""

Wit_C7_FailureAborts ==
    /\ pc = "failed"
    /\ failed_at = "fit"
    /\ Len(trace) = 10

TrainPath ==
    <<"parse_args", "load_edgelist", "load_node_data", "train", "encode_targets",
      "build_graph", "split_train", "split_val", "build_model", "fit", "evaluate",
      "predict", "decode", "save_model", "save_encoding">>

TestPath == <<"parse_args", "load_edgelist", "load_node_data", "test">>

\* C8: the blocks a run has entered are an initial part of one of the two
\* paths (arguments, edge list, node table, then train() with its blocks in
\* program order, or the call of test()), the branch is the one the
\* checkpoint argument selects, and a run that ends normally has entered
\* every block of the train path once.
Thm_C8_OneForwardPass ==
    /\ IsPrefix(trace, TrainPath) \/ IsPrefix(trace, TestPath)
    /\ Entered("train") => argv.checkpoint = None
    /\ Entered("test") => argv.checkpoint # None
    /\ pc = "done" => trace = TrainPath
    /\ (pc # "failed" /\ pc # "done") =>
          \/ IsPrefix(Append(trace, pc), TrainPath)
          \/ IsPrefix(Append(trace, pc), TestPath)

Wit_C8_OneForwardPass ==
    /\ pc = "done"
    /\ Len(trace) = 15

Endpoints(edges) ==
    {edges[i][1] : i \in 1..Len(edges)} \cup {edges[i][2] : i \in 1..Len(edges)}

\* C9 as stated: after graph assembly every node of the graph (every edge
\* endpoint, every node ID of the node table) carries a feature vector and
\* the type tag 'paper'.
Orig_C9_EveryNodeAttributed ==
    Completed("build_graph") =>
        LET all == Endpoints(edgelist) \cup Range(NodeIds)
        IN  \A n \in all :
                /\ n \in G.nodes
                /\ G.attrs[n] # NoAttrs
                /\ G.attrs[n][2] = "paper"

\* C9 amended: after graph assembly the nodes of the graph are the edge
\* endpoints; every node ID of the node table is one of them and carries
\* its row's feature vector and the tag 'paper'; an edge endpoint absent
\* from the node table carries no attribute; and a node table with a row
\* whose ID is no edge endpoint makes graph assembly raise.
Thm_C9_TableNodesAttributed ==
    LET ends == Endpoints(edgelist)
        ids == Range(NodeIds)
    IN  /\ Completed("build_graph") =>
              /\ G.nodes = ends
              /\ \A i \in 1..NumRows :
                    /\ node_data[i].id \in G.nodes
                    /\ G.attrs[node_data[i].id] = <<node_data[i].feature, "paper">>
              /\ \A n \in G.nodes \ ids : G.attrs[n] = NoAttrs
        /\ (Entered("build_graph") /\ pc # "build_graph" /\ ~(ids \subseteq ends)) =>
              pc = "failed" /\ failed_at = "build_graph"

Wit_C9_TableNodesAttributed ==
    /\ Completed("build_graph")
    /\ NumRows = 2
    /\ Unattributed(G) # {}

\* C10: whatever value --target has, train() works on the column 'subject':
\* its target_name is "subject", the encoder's features are those of the
\* subject column, the all-node comparison counts the rows whose subject is
\* predicted, and the files are named by the four hyperparameters alone.
Thm_C10_TargetFlagUnused ==
    /\ Completed("train") => target_name = "subject"
    /\ Completed("encode_targets") =>
          /\ target_encoding = FitFeatureNames("subject", node_data)
          /\ node_targets = Transform(target_encoding, "subject", node_data)
    /\ Completed("save_encoding") =>
          written = <<ModelFile(SaveStr(argv.neighbour_samples, argv.layer_size,
                                        argv.dropout, argv.learningrate)),
                      EncodingFile(SaveStr(argv.neighbour_samples, argv.layer_size,
                                           argv.dropout, argv.learningrate))>>

Wit_C10_TargetFlagUnused ==
    /\ argv.target = "paper_type"
    /\ pc = "done"
    /\ Len(written) = 2

=============================================================================
